---- MODULE Spec2Model ----
(***************************************************************************)
(* Model of fd's entry printer (src/output.rs) and of its filter           *)
(* combinators (src/filter/common.rs), for a unix build.                   *)
(*                                                                         *)
(* Bytes are modelled as tokens: "a", "b" and "." are ordinary ASCII       *)
(* bytes, "/" is the native separator, "xFF" is a byte that is not valid   *)
(* UTF-8, "xEF" "xBF" "xBD" are the three bytes of U+FFFD, "NUL" and "LF"  *)
(* are the two record terminators, and "ESC[" .. "m" frame an ANSI escape. *)
(***************************************************************************)
EXTENDS Naturals, Sequences, FiniteSets, TLC

VARIABLES
    config,         \* the Config borrowed by print_entry; fixed for a run
    entries,        \* the entries handed to print_entry so far, in order
    pc,             \* position of the printing thread inside print_entry
    r,              \* the io::Result bound at output.rs:40 ("none" before)
    out,            \* bytes that reached the destination stream (a write
                    \* counts as delivered when the call returns)
    diag,           \* messages reported through print_error
    exit,           \* "running", or the ExitCode the process exited with
    wants_to_quit,  \* the shared AtomicBool
    cancelAt,       \* history: where the printer stood when the flag was set
                    \* (n records written in full, between two records or
                    \* not, and the position pc)
    filters,        \* <<F1, F2, F3>>: three optional leaf filters
    fentry,         \* the entry the filters are asked about
    fresult         \* results of the should_skip evaluations made so far

vars == <<config, entries, pc, r, out, diag, exit, wants_to_quit, cancelAt,
          filters, fentry, fresult>>

outvars == <<config, entries, pc, r, out, diag, exit, wants_to_quit, cancelAt>>

filtervars == <<filters, fentry, fresult>>

\* Number of entries the upstream source hands over in one run.
MaxEntries == 2

----------------------------------------------------------------------------
(* Paths: std::path on unix, as far as output.rs uses it.                  *)

\* std::path::MAIN_SEPARATOR
MAIN_SEPARATOR == "/"

\* MAIN_SEPARATOR_STR (lazy_static)
MAIN_SEPARATOR_STR == <<MAIN_SEPARATOR>>

\* std::path::is_separator
is_separator(c) == c = "/"

\* Path::is_absolute (unix: the path has a root)
is_absolute(p) == Len(p) > 0 /\ p[1] = "/"

\* Components::include_cur_dir: a leading "." component is kept
include_cur_dir(p) ==
    /\ ~is_absolute(p)
    /\ Len(p) >= 1
    /\ p[1] = "."
    /\ (Len(p) = 1 \/ is_separator(p[2]))

\* Components::len_before_body
len_before_body(p) ==
    (IF is_absolute(p) THEN 1 ELSE 0) + (IF include_cur_dir(p) THEN 1 ELSE 0)

SetMax(S) == CHOOSE x \in S : \A y \in S : y <= x

\* Components::parse_next_component_back on p[1..n]: the size of the last
\* component (with its separator) and whether it is a real component
\* ("" and "." are normalised away).
parse_next_component_back(p, n) ==
    LET lb   == len_before_body(p)
        seps == {i \in (lb + 1)..n : is_separator(p[i])}
        comp == IF seps = {} THEN SubSeq(p, lb + 1, n)
                ELSE SubSeq(p, SetMax(seps) + 1, n)
        extra == IF seps = {} THEN 0 ELSE 1
    IN  [size |-> Len(comp) + extra, some |-> comp \notin {<<>>, <<".">>}]

\* Components::trim_right: the length left once trailing "" and "."
\* components are dropped.
RECURSIVE trim_right(_, _)
trim_right(p, n) ==
    IF n <= len_before_body(p) THEN n
    ELSE LET c == parse_next_component_back(p, n)
         IN  IF c.some THEN n ELSE trim_right(p, n - c.size)

\* Components::next_back while in the body: whether a component was found
\* and the length left in front of it.
RECURSIVE next_back(_, _)
next_back(p, n) ==
    IF n <= len_before_body(p) THEN [found |-> FALSE, n |-> n]
    ELSE LET c == parse_next_component_back(p, n)
         IN  IF c.some THEN [found |-> TRUE, n |-> n - c.size]
             ELSE next_back(p, n - c.size)

\* Path::parent
parent(p) ==
    LET b == next_back(p, Len(p))
    IN  IF b.found
          THEN [some |-> TRUE, path |-> SubSeq(p, 1, trim_right(p, b.n))]
        ELSE IF include_cur_dir(p)
          THEN [some |-> TRUE, path |-> <<>>]
        ELSE [some |-> FALSE, path |-> <<>>]

\* Path::to_string_lossy: a byte that is not valid UTF-8 becomes U+FFFD.
RECURSIVE to_string_lossy(_)
to_string_lossy(p) ==
    IF p = <<>> THEN <<>>
    ELSE (IF Head(p) = "xFF" THEN <<"xEF", "xBF", "xBD">> ELSE <<Head(p)>>)
         \o to_string_lossy(Tail(p))

\* OsStrExt::as_bytes: the path's own bytes
as_bytes(p) == p

\* replace_path_separator: str::replace of every MAIN_SEPARATOR
RECURSIVE replace_path_separator(_, _)
replace_path_separator(path, new_path_separator) ==
    IF path = <<>> THEN <<>>
    ELSE (IF Head(path) = MAIN_SEPARATOR THEN new_path_separator
          ELSE <<Head(path)>>)
         \o replace_path_separator(Tail(path), new_path_separator)

\* Components::trim_left after the leading "." was consumed
RECURSIVE trim_left(_)
trim_left(p) ==
    IF p # <<>> /\ is_separator(Head(p)) THEN trim_left(Tail(p)) ELSE p

\* filesystem::strip_current_dir: drop a leading "." component
strip_current_dir(p) ==
    IF include_cur_dir(p) THEN trim_left(Tail(p)) ELSE p

\* stripped_path
stripped_path(entry) ==
    IF is_absolute(entry.path) THEN entry.path
    ELSE strip_current_dir(entry.path)

----------------------------------------------------------------------------
(* Entries, configurations and styles.                                     *)

\* Paths of discovered entries: a search root joined with file names.
PathAbs    == <<"/", "a", "/", "b">>
PathCurDir == <<"a", "/", ".", "/", "b">>
PathBadUtf == <<".", "/", "xFF">>
PathRel    == <<"a", "/", "/", "b">>

\* DirEntry: the path and the cached metadata result ("none": unavailable)
Entries ==
    { [path |-> PathAbs,    md |-> "dir"],
      [path |-> PathCurDir, md |-> "file"],
      [path |-> PathBadUtf, md |-> "dir"],
      [path |-> PathRel,    md |-> "none"] }

\* Option<LsColors>: absent, or a table with a style for the directory
\* indicator and one for other paths ("none": the table has no style).
NoColors     == [present |-> FALSE, dir |-> "none", other |-> "none"]
PlainColors  == [present |-> TRUE,  dir |-> "none", other |-> "none"]
StyledColors == [present |-> TRUE,  dir |-> "1;34", other |-> "32"]

\* Option<String> path_separator
NoSeparator    == [some |-> FALSE, s |-> <<>>]
ColonSeparator == [some |-> TRUE,  s |-> <<":", ":">>]

\* Config, as far as the printer reads it, and RenderConfig's
\* show_trailing_separator.
Configs ==
    [ ls_colors               : {NoColors, PlainColors, StyledColors},
      null_separator          : BOOLEAN,
      path_separator          : {NoSeparator, ColonSeparator},
      interactive_terminal    : BOOLEAN,
      show_trailing_separator : BOOLEAN ]

\* ansi_term: Style::paint(s) displayed; the default style adds nothing.
paint(style, s) ==
    IF style = "none" THEN s
    ELSE <<"ESC[", style, "m">> \o s \o <<"ESC[", "0", "m">>

\* LsColors::style_for_indicator(Indicator::Directory)
style_for_indicator(ls_colors) == ls_colors.dir

\* LsColors::style_for_path_with_metadata
style_for_path_with_metadata(ls_colors, entry) ==
    IF entry.md = "dir" THEN ls_colors.dir ELSE ls_colors.other

\* entry.metadata().map_or(false, |m| m.is_dir())
is_dir(entry) == entry.md = "dir"

----------------------------------------------------------------------------
(* What each write of the printer sends.                                   *)

\* Faulty variant: new bytes land in front of what was written.
Emit_in_front(stream, bytes) == bytes \o stream

\* write!/write_all on the locked stdout: the bytes follow what is there.
Emit(stream, bytes) == stream \o bytes

\* Faulty variant: the native separator is written even when an override
\* is configured.
print_trailing_slash_native(entry, cfg, style) ==
    IF is_dir(entry) THEN paint(style, MAIN_SEPARATOR_STR) ELSE <<>>

\* print_trailing_slash: the bytes it writes (none when not a directory)
print_trailing_slash(entry, cfg, style) ==
    IF is_dir(entry)
      THEN paint(style, IF cfg.path_separator.some THEN cfg.path_separator.s
                        ELSE MAIN_SEPARATOR_STR)
      ELSE <<>>

\* output.rs:99-105: step over the separators that follow the parent
RECURSIVE skip_separators(_, _)
skip_separators(path_str, offset) ==
    IF offset < Len(path_str) /\ is_separator(path_str[offset + 1])
      THEN skip_separators(path_str, offset + 1)
      ELSE offset

\* output.rs:93-106: where the last component starts in path_str
split_offset(entry) ==
    LET path     == stripped_path(entry)
        path_str == to_string_lossy(path)
        par      == parent(path)
    IN  IF par.some
          THEN skip_separators(path_str, Len(to_string_lossy(par.path)))
          ELSE 0

\* output.rs:108-119: the painted directory prefix
colorized_parent(entry, cfg) ==
    LET path_str   == to_string_lossy(stripped_path(entry))
        parent_raw == SubSeq(path_str, 1, split_offset(entry))
        parent_str == IF cfg.path_separator.some
                        THEN replace_path_separator(parent_raw,
                                                    cfg.path_separator.s)
                        ELSE parent_raw
    IN  paint(style_for_indicator(cfg.ls_colors), parent_str)

\* output.rs:121-125: the painted last component
colorized_last(entry, cfg) ==
    LET path_str == to_string_lossy(stripped_path(entry))
    IN  paint(style_for_path_with_metadata(cfg.ls_colors, entry),
              SubSeq(path_str, split_offset(entry) + 1, Len(path_str)))

\* output.rs:156-160: the text of the uncolorized base path
uncolorized_base_path(entry, cfg) ==
    LET path_string == to_string_lossy(stripped_path(entry))
    IN  IF cfg.path_separator.some
          THEN replace_path_separator(path_string, cfg.path_separator.s)
          ELSE path_string

\* output.rs:188: the raw bytes of the path
uncolorized_raw_path(entry) == as_bytes(stripped_path(entry))

\* Faulty variant: the null_separator option is ignored.
terminator_newline(cfg) == <<"LF">>

\* output.rs:134-138, 153, 187: the record terminator
terminator(cfg) == IF cfg.null_separator THEN <<"NUL">> ELSE <<"LF">>

\* output.rs:40: print_entry takes the colorized branch
uses_colorized(cfg) == cfg.ls_colors.present

\* Faulty variant: a path separator override does not force the base.
falls_back_only_interactive(cfg) == cfg.interactive_terminal

\* output.rs:182: print_entry_uncolorized falls back to the base
falls_back_to_base(cfg) ==
    cfg.interactive_terminal \/ cfg.path_separator.some

\* Faulty variant: the flag is never observed.
quit_requested_never(flag) == FALSE

\* output.rs:140: wants_to_quit.load(Ordering::Relaxed)
quit_requested(flag) == flag

\* Faulty variant: a broken pipe is treated like any other error.
exit_code_for_any(kind) == "GeneralError"

\* output.rs:47-53: the exit code for a failed write
exit_code_for(kind) ==
    IF kind = "BrokenPipe" THEN "Success" ELSE "GeneralError"

\* output.rs:51: what print_error reports (none for a broken pipe)
error_report(kind) ==
    IF kind = "BrokenPipe" THEN <<>> ELSE <<"Could not write to output">>

ErrorKinds == {"BrokenPipe", "Other"}

----------------------------------------------------------------------------
(* Filters: src/filter/common.rs.                                          *)

\* A filter that is neither a chain nor an Option: it skips the entries
\* whose metadata kind is in skips; id names it in the evaluation order.
Leaf(id, skips) == [kind |-> "leaf", id |-> id, skips |-> skips]

\* Option<F>: Some(f) or None
SomeFilter(f) == [kind |-> "option", some |-> TRUE, f |-> f]
NoneFilter    == [kind |-> "option", some |-> FALSE]

\* Filter::chain
chain(self, other) == [kind |-> "chain", f0 |-> self, f1 |-> other]

\* Faulty variant: both operands are always evaluated.
chained_should_skip_eager(left, right) ==
    [skip |-> left.skip \/ right.skip,
     evaluated |-> left.evaluated \o right.evaluated]

\* ChainedFilter::should_skip: self.0.should_skip(e) || self.1.should_skip(e);
\* `||` evaluates its right operand only when the left one is false.
chained_should_skip(left, right) ==
    IF left.skip THEN left
    ELSE [skip |-> right.skip, evaluated |-> left.evaluated \o right.evaluated]

\* Option<F>::should_skip: map_or(false, |f| f.should_skip(entry))
option_should_skip(some, inner) ==
    IF some THEN inner ELSE [skip |-> FALSE, evaluated |-> <<>>]

\* Filter::should_skip: the answer and the leaves evaluated, in order.
RECURSIVE should_skip(_, _)
should_skip(f, entry) ==
    CASE f.kind = "leaf" ->
           [skip |-> entry.md \in f.skips, evaluated |-> <<f.id>>]
      [] f.kind = "option" ->
           IF f.some THEN option_should_skip(TRUE, should_skip(f.f, entry))
           ELSE option_should_skip(FALSE, [skip |-> FALSE, evaluated |-> <<>>])
      [] f.kind = "chain" ->
           chained_should_skip(should_skip(f.f0, entry),
                               should_skip(f.f1, entry))

\* The optional leaf filters position i of a chain may hold.
FilterChoices(i) ==
    { NoneFilter,
      SomeFilter(Leaf(i, {})),
      SomeFilter(Leaf(i, {"dir"})),
      SomeFilter(Leaf(i, {"file", "none"})) }

EvalNames == {"left_assoc", "right_assoc", "none_left", "none_right",
              "alone", "absent"}

NotEvaluated == [done |-> FALSE, skip |-> FALSE, evaluated |-> <<>>]

Evaluated(res) == [done |-> TRUE, skip |-> res.skip, evaluated |-> res.evaluated]

\* The filter each evaluation asks.
FilterOf(name) ==
    CASE name = "left_assoc"  -> chain(chain(filters[1], filters[2]), filters[3])
      [] name = "right_assoc" -> chain(filters[1], chain(filters[2], filters[3]))
      [] name = "none_left"   -> chain(NoneFilter, filters[1])
      [] name = "none_right"  -> chain(filters[1], NoneFilter)
      [] name = "alone"       -> filters[1]
      [] name = "absent"      -> NoneFilter

----------------------------------------------------------------------------
(* The printer as a state machine.                                         *)

ColorPcs == {"c_parent", "c_last", "c_slash", "c_term"}
BasePcs  == {"b_path", "b_slash", "b_term"}
RawPcs   == {"r_path", "r_slash", "r_term"}
WritePcs == ColorPcs \cup BasePcs \cup RawPcs

\* The entry print_entry is printing (or printed last).
cur == entries[Len(entries)]

\* A record of the current entry is still being written, or was cut short.
InFlight == Len(entries) > 0 /\ (pc \in WritePcs \/ r \in ErrorKinds)

\* Records written in full.
Completed == IF InFlight THEN Len(entries) - 1 ELSE Len(entries)

NotCancelled == [set |-> FALSE, n |-> 0, between |-> FALSE, at |-> "idle"]

Init ==
    /\ config \in Configs
    /\ entries = <<>>
    /\ pc = "idle"
    /\ r = "none"
    /\ out = <<>>
    /\ diag = <<>>
    /\ exit = "running"
    /\ wants_to_quit = FALSE
    /\ cancelAt = NotCancelled
    /\ filters = <<NoneFilter, NoneFilter, NoneFilter>>
    /\ fentry = [path |-> PathAbs, md |-> "dir"]
    /\ fresult = [n \in EvalNames |-> NotEvaluated]

\* A write that succeeds moves on; one that fails returns the error (`?`),
\* after any part of the bytes short of all of them went out.
Write(bytes, next) ==
    \/ /\ out' = Emit(out, bytes)
       /\ pc' = next
       /\ r' = r
    \/ \E kind \in ErrorKinds, k \in 0..(Len(bytes) - 1) :
          /\ r' = kind
          /\ pc' = "ret"
          /\ out' = Emit(out, SubSeq(bytes, 1, k))

\* The last write of an uncolorized record is the function's result.
WriteLast(bytes) ==
    \/ /\ out' = Emit(out, bytes)
       /\ pc' = "ret"
       /\ r' = "Ok"
    \/ \E kind \in ErrorKinds, k \in 0..(Len(bytes) - 1) :
          /\ r' = kind
          /\ pc' = "ret"
          /\ out' = Emit(out, SubSeq(bytes, 1, k))

\* output.rs:34-44: the caller hands the next entry to print_entry.
Call ==
    /\ pc = "idle"
    /\ exit = "running"
    /\ Len(entries) < MaxEntries
    /\ \E e \in Entries : entries' = Append(entries, e)
    /\ pc' = IF uses_colorized(config) THEN "c_parent"
             ELSE IF falls_back_to_base(config) THEN "b_path"
             ELSE "r_path"
    /\ r' = "none"
    /\ UNCHANGED <<config, out, diag, exit, wants_to_quit, cancelAt, filtervars>>

\* output.rs:108-119
ColorParent ==
    /\ pc = "c_parent"
    /\ IF split_offset(cur) > 0
         THEN Write(colorized_parent(cur, config), "c_last")
         ELSE pc' = "c_last" /\ UNCHANGED <<out, r>>
    /\ UNCHANGED <<config, entries, diag, exit, wants_to_quit, cancelAt, filtervars>>

\* output.rs:121-125
ColorLast ==
    /\ pc = "c_last"
    /\ Write(colorized_last(cur, config), "c_slash")
    /\ UNCHANGED <<config, entries, diag, exit, wants_to_quit, cancelAt, filtervars>>

\* output.rs:127-132
ColorSlash ==
    /\ pc = "c_slash"
    /\ IF is_dir(cur)
         THEN Write(print_trailing_slash(cur, config,
                        style_for_indicator(config.ls_colors)), "c_term")
         ELSE pc' = "c_term" /\ UNCHANGED <<out, r>>
    /\ UNCHANGED <<config, entries, diag, exit, wants_to_quit, cancelAt, filtervars>>

\* output.rs:134-138
ColorTerm ==
    /\ pc = "c_term"
    /\ Write(terminator(config), "c_poll")
    /\ UNCHANGED <<config, entries, diag, exit, wants_to_quit, cancelAt, filtervars>>

\* output.rs:140-144
ColorPoll ==
    /\ pc = "c_poll"
    /\ IF quit_requested(wants_to_quit)
         THEN pc' = "exited" /\ exit' = "KilledBySigint" /\ r' = r
         ELSE pc' = "ret" /\ r' = "Ok" /\ exit' = exit
    /\ UNCHANGED <<config, entries, out, diag, wants_to_quit, cancelAt, filtervars>>

\* output.rs:156-160
BasePath ==
    /\ pc = "b_path"
    /\ Write(uncolorized_base_path(cur, config), "b_slash")
    /\ UNCHANGED <<config, entries, diag, exit, wants_to_quit, cancelAt, filtervars>>

\* output.rs:161
BaseSlash ==
    /\ pc = "b_slash"
    /\ IF is_dir(cur)
         THEN Write(print_trailing_slash(cur, config, "none"), "b_term")
         ELSE pc' = "b_term" /\ UNCHANGED <<out, r>>
    /\ UNCHANGED <<config, entries, diag, exit, wants_to_quit, cancelAt, filtervars>>

\* output.rs:162
BaseTerm ==
    /\ pc = "b_term"
    /\ WriteLast(terminator(config))
    /\ UNCHANGED <<config, entries, diag, exit, wants_to_quit, cancelAt, filtervars>>

\* output.rs:188
RawPath ==
    /\ pc = "r_path"
    /\ Write(uncolorized_raw_path(cur), "r_slash")
    /\ UNCHANGED <<config, entries, diag, exit, wants_to_quit, cancelAt, filtervars>>

\* output.rs:189
RawSlash ==
    /\ pc = "r_slash"
    /\ IF is_dir(cur)
         THEN Write(print_trailing_slash(cur, config, "none"), "r_term")
         ELSE pc' = "r_term" /\ UNCHANGED <<out, r>>
    /\ UNCHANGED <<config, entries, diag, exit, wants_to_quit, cancelAt, filtervars>>

\* output.rs:190
RawTerm ==
    /\ pc = "r_term"
    /\ WriteLast(terminator(config))
    /\ UNCHANGED <<config, entries, diag, exit, wants_to_quit, cancelAt, filtervars>>

\* output.rs:46-55: print_entry returns, or exits on a failed write.
Return ==
    /\ pc = "ret"
    /\ IF r \in ErrorKinds
         THEN /\ diag' = diag \o error_report(r)
              /\ exit' = exit_code_for(r)
              /\ pc' = "exited"
         ELSE /\ pc' = "idle"
              /\ UNCHANGED <<diag, exit>>
    /\ UNCHANGED <<config, entries, r, out, wants_to_quit, cancelAt, filtervars>>

\* Another thread (the signal handler) stores true into wants_to_quit.
RequestQuit ==
    /\ exit = "running"
    /\ ~wants_to_quit
    /\ wants_to_quit' = TRUE
    /\ cancelAt' = [set |-> TRUE, n |-> Completed, between |-> ~InFlight,
                    at |-> pc]
    /\ UNCHANGED <<config, entries, pc, r, out, diag, exit, filtervars>>

Next ==
    \/ Call
    \/ ColorParent \/ ColorLast \/ ColorSlash \/ ColorTerm \/ ColorPoll
    \/ BasePath \/ BaseSlash \/ BaseTerm
    \/ RawPath \/ RawSlash \/ RawTerm
    \/ Return
    \/ RequestQuit

Spec == Init /\ [][Next]_vars

----------------------------------------------------------------------------
(* The filters as a state machine: three optional filters and an entry are *)
(* chosen, then should_skip is asked of the chains built from them.        *)

FilterInit ==
    /\ filters \in FilterChoices(1) \X FilterChoices(2) \X FilterChoices(3)
    /\ fentry \in Entries
    /\ fresult = [n \in EvalNames |-> NotEvaluated]
    /\ config = CHOOSE c \in Configs : TRUE
    /\ entries = <<>>
    /\ pc = "idle"
    /\ r = "none"
    /\ out = <<>>
    /\ diag = <<>>
    /\ exit = "running"
    /\ wants_to_quit = FALSE
    /\ cancelAt = NotCancelled

Evaluate(name) ==
    /\ ~fresult[name].done
    /\ fresult' = [fresult EXCEPT
                     ![name] = Evaluated(should_skip(FilterOf(name), fentry))]
    /\ UNCHANGED <<filters, fentry, outvars>>

EvalLeftAssoc  == Evaluate("left_assoc")
EvalRightAssoc == Evaluate("right_assoc")
EvalNoneLeft   == Evaluate("none_left")
EvalNoneRight  == Evaluate("none_right")
EvalAlone      == Evaluate("alone")
EvalAbsent     == Evaluate("absent")

FilterNext ==
    \/ EvalLeftAssoc \/ EvalRightAssoc
    \/ EvalNoneLeft \/ EvalNoneRight
    \/ EvalAlone \/ EvalAbsent

FilterSpec == FilterInit /\ [][FilterNext]_vars

----------------------------------------------------------------------------------------------------------------------------------------
(* Properties.                                                             *)

\* A function of the configuration and the entry, computed once.
Table(F(_, _)) ==
    [cfg \in Configs |-> ([e \in Entries |-> F(cfg, e)] @@ <<>>)] @@ <<>>

RECURSIVE Flatten(_)
Flatten(ss) == IF ss = <<>> THEN <<>> ELSE Head(ss) \o Flatten(Tail(ss))

\* The destination holds Rec[e] for every entry printed in full, in the
\* order of arrival, followed by a proper prefix of Rec of the entry that
\* is in flight (if any) and by nothing else.
OutMatches(Rec) ==
    LET done == Flatten([i \in 1..Completed |-> Rec[entries[i]]])
    IN  IF InFlight
          THEN \E k \in 0..(Len(Rec[cur]) - 1) :
                  out = done \o SubSeq(Rec[cur], 1, k)
          ELSE out = done

\* The path text the printer writes for an entry, in the mode it takes.
PathPart(e, cfg) ==
    IF uses_colorized(cfg)
      THEN (IF split_offset(e) > 0 THEN colorized_parent(e, cfg) ELSE <<>>)
           \o colorized_last(e, cfg)
    ELSE IF falls_back_to_base(cfg) THEN uncolorized_base_path(e, cfg)
    ELSE uncolorized_raw_path(e)

\* The trailing separator the printer writes for an entry.
SlashPart(e, cfg) ==
    print_trailing_slash(e, cfg,
        IF uses_colorized(cfg) THEN style_for_indicator(cfg.ls_colors)
        ELSE "none")

\* The record the printer writes for an entry, for every configuration.
RecordOf ==
    Table(LAMBDA cfg, e :
        PathPart(e, cfg) \o SlashPart(e, cfg) \o terminator(cfg))

ColorEnabled == config.ls_colors.present

C3_WriteFailureIsTerminal ==
    /\ [](r \in ErrorKinds => pc \in {"ret", "exited"})
    /\ []((pc = "exited" /\ r = "BrokenPipe") =>
              exit = "Success" /\ diag = <<>>)
    /\ []((pc = "exited" /\ r = "Other") =>
              exit = "GeneralError" /\ Len(diag) = 1)
    /\ [](exit \in {"Success", "GeneralError"} => r \in ErrorKinds)
    /\ [][(r \in ErrorKinds \/ exit # "running") =>
              /\ out' = out
              /\ pc' \in {pc, "exited"}]_vars

\* C3 witness: a write failed with a broken pipe after part of the record
\* was written, and the process exited with Success without a diagnostic.
C3_Witness ==
    /\ pc = "exited"
    /\ r = "BrokenPipe"
    /\ exit = "Success"
    /\ diag = <<>>
    /\ out # <<>>
    /\ InFlight

RawCondition(cfg) ==
    /\ ~cfg.ls_colors.present
    /\ ~cfg.path_separator.some
    /\ ~cfg.interactive_terminal

\* The path text of the two text-based modes.
TextPathPart(e, cfg) ==
    IF cfg.ls_colors.present
      THEN (IF split_offset(e) > 0 THEN colorized_parent(e, cfg) ELSE <<>>)
           \o colorized_last(e, cfg)
      ELSE uncolorized_base_path(e, cfg)

\* The record C4 asks for: the path's own bytes under the raw condition,
\* the text-based path otherwise.
C4_Record ==
    Table(LAMBDA cfg, e :
        (IF RawCondition(cfg) THEN stripped_path(e) ELSE TextPathPart(e, cfg))
        \o SlashPart(e, cfg) \o terminator(cfg))

\* C4: the raw-byte branch is taken exactly when color is disabled, no path
\* separator override is set and the output is not an interactive terminal;
\* the path bytes written are then the path's own bytes, and in every other
\* configuration the text-based path is written.
C4_RawBytesExactlyWhen ==
    /\ pc \in RawPcs => RawCondition(config)
    /\ pc \in (ColorPcs \cup BasePcs) => ~RawCondition(config)
    /\ OutMatches(C4_Record[config])

\* C4 witness: a path with a byte that is not valid text was printed in
\* full in the raw-byte mode, and the byte is in the output as it is.
C4_Witness ==
    /\ RawCondition(config)
    /\ pc = "idle"
    /\ Len(entries) > 0
    /\ cur.path = PathBadUtf
    /\ \E i \in 1..Len(out) : out[i] = "xFF"

\* The path text with every native separator replaced by the override, as
\* the two text-based modes would have to write it.
ReplacedPathPart(e, cfg) ==
    LET path_str == to_string_lossy(stripped_path(e))
        offset   == split_offset(e)
        new      == cfg.path_separator.s
    IN  IF cfg.ls_colors.present
          THEN (IF offset > 0
                  THEN paint(style_for_indicator(cfg.ls_colors),
                             replace_path_separator(
                                 SubSeq(path_str, 1, offset), new))
                  ELSE <<>>)
               \o paint(style_for_path_with_metadata(cfg.ls_colors, e),
                        replace_path_separator(
                            SubSeq(path_str, offset + 1, Len(path_str)), new))
          ELSE replace_path_separator(path_str, new)

\* The record C5 asks for under an override.
C5_Record ==
    Table(LAMBDA cfg, e :
        ReplacedPathPart(e, cfg) \o SlashPart(e, cfg) \o terminator(cfg))

\* C5 as stated: with a path separator override S, every native separator
\* of the emitted path text is replaced by S, with color disabled and with
\* color enabled, in the directory prefix and in the final component, so no
\* native separator is left in the output.
C5_AsStated ==
    config.path_separator.some =>
        /\ OutMatches(C5_Record[config])
        /\ \A i \in 1..Len(out) : out[i] # MAIN_SEPARATOR

\* The record C6 asks for: a trailing separator only with the option on.
C6_Record ==
    Table(LAMBDA cfg, e :
        PathPart(e, cfg)
        \o (IF cfg.show_trailing_separator THEN SlashPart(e, cfg) ELSE <<>>)
        \o terminator(cfg))

\* C6 as stated: the trailing separator is written only if the entry is a
\* directory and show_trailing_separator is enabled; with the option
\* disabled a directory's record is the path text followed directly by the
\* terminator.
C6_AsStated == OutMatches(C6_Record[config])

\* The separator a directory's record has to end with.
ExpectedSlash(e, cfg) ==
    LET separator == IF cfg.path_separator.some
                       THEN cfg.path_separator.s
                       ELSE <<"/">>
    IN  IF e.md = "dir"
          THEN (IF cfg.ls_colors.present
                  THEN paint(cfg.ls_colors.dir, separator)
                  ELSE separator)
          ELSE <<>>

\* The record C7 asks for.
C7_Record ==
    Table(LAMBDA cfg, e :
        PathPart(e, cfg) \o ExpectedSlash(e, cfg) \o terminator(cfg))

\* C7: with show_trailing_separator enabled, every directory's record has
\* exactly one trailing separator (the override if set, else the native
\* one; styled as the directory indicator under color) between the path
\* text and the terminator, and no other record has one, in every mode.
C7_OneTrailingSeparator ==
    config.show_trailing_separator => OutMatches(C7_Record[config])

\* C7 witness: with the option enabled and the override "::", a directory
\* was printed in full and returned from.
C7_Witness ==
    /\ config.show_trailing_separator
    /\ config.path_separator.some
    /\ pc = "idle"
    /\ Len(entries) > 0
    /\ is_dir(cur)
    /\ SubSeq(out, Len(out) - 2, Len(out) - 1) = <<":", ":">>

ExpectedTerminator(cfg) == IF cfg.null_separator THEN "NUL" ELSE "LF"

\* The record C8 asks for.
C8_Record ==
    Table(LAMBDA cfg, e :
        PathPart(e, cfg) \o SlashPart(e, cfg) \o <<ExpectedTerminator(cfg)>>)

\* C8: every record written in full ends with exactly one terminator byte,
\* NUL iff null_separator is set and newline otherwise, and a record in
\* flight holds none yet, in every mode.
C8_OneTerminator ==
    /\ OutMatches(C8_Record[config])
    /\ Cardinality({i \in 1..Len(out) : out[i] \in {"NUL", "LF"}}) = Completed
    /\ \A i \in 1..Len(out) :
          out[i] \in {"NUL", "LF"} => out[i] = ExpectedTerminator(config)

\* C8 witness: with null_separator set, two records were written in full.
C8_Witness ==
    /\ config.null_separator
    /\ pc = "idle"
    /\ Len(entries) = 2
    /\ out[Len(out)] = "NUL"

\* C9: the destination holds, in the order of arrival and each once, the
\* records of the entries printed in full, then a prefix of the record in
\* flight; when print_entry has returned from every entry it holds the
\* records of the whole sequence.
C9_RecordsInArrivalOrder ==
    /\ OutMatches(RecordOf[config])
    /\ (pc = "idle" /\ exit = "running") =>
          out = Flatten([i \in 1..Len(entries) |->
                            RecordOf[config][entries[i]]])

\* C9 witness: two different entries were printed and returned from.
C9_Witness ==
    /\ pc = "idle"
    /\ exit = "running"
    /\ Len(entries) = 2
    /\ RecordOf[config][entries[1]] # RecordOf[config][entries[2]]
    /\ out = RecordOf[config][entries[1]] \o RecordOf[config][entries[2]]

\* Leaf i is present and skips the entry asked about.
LeafSkips(i) ==
    filters[i].some /\ fentry.md \in filters[i].f.skips

\* C10: chaining is associative under should_skip, the absent filter skips
\* nothing and is the identity of chaining on either side, the result is the
\* OR of the operands, and no filter to the right of one that signalled
\* skip is evaluated.
C10_ChainIsShortCircuitOr ==
    /\ (fresult["left_assoc"].done /\ fresult["right_assoc"].done) =>
          fresult["left_assoc"].skip = fresult["right_assoc"].skip
    /\ fresult["left_assoc"].done =>
          fresult["left_assoc"].skip = (\E i \in 1..3 : LeafSkips(i))
    /\ fresult["absent"].done => ~fresult["absent"].skip
    /\ (fresult["alone"].done /\ fresult["none_left"].done) =>
          fresult["none_left"].skip = fresult["alone"].skip
    /\ (fresult["alone"].done /\ fresult["none_right"].done) =>
          fresult["none_right"].skip = fresult["alone"].skip
    /\ \A n \in EvalNames :
          fresult[n].done =>
             \A k \in 1..(Len(fresult[n].evaluated) - 1) :
                ~LeafSkips(fresult[n].evaluated[k])

\* C10 witness: both groupings were evaluated, the second filter signalled
\* skip and the third was not evaluated.
C10_Witness ==
    /\ fresult["left_assoc"].done
    /\ fresult["right_assoc"].done
    /\ fresult["none_left"].done
    /\ fresult["none_right"].done
    /\ fresult["alone"].done
    /\ fresult["left_assoc"].skip
    /\ fresult["left_assoc"].evaluated = <<1, 2>>
    /\ fresult["right_assoc"].evaluated = <<1, 2>>

====
